---- MODULE Spec2Model ----
(***************************************************************************)
(* ZK-DAP: the DataAccess circuit (circuits/src/data_access.circom), the   *)
(* ZKDataAccess gateway contract (contracts/zkdap/ZKDataAccess.sol) and    *)
(* the client that submits proofs to it (scripts/interact.js).             *)
(*                                                                         *)
(* Solidity and JavaScript index arrays from 0, TLA+ sequences from 1:     *)
(* publicSignals[0] of the source is publicSignals[1] here.                *)
(***************************************************************************)
EXTENDS Integers, Sequences, FiniteSets, TLC

VARIABLES
    verifierContract,      \* ZKDataAccess.verifierContract
    resourcePermissions,   \* ZKDataAccess.resourcePermissions
    resourceData,          \* ZKDataAccess.resourceData
    events,                \* the contract's event log, oldest first
    call,                  \* the last external call of the contract and its result
    input,                 \* input.json: the assignment given to the witness generator
    witness,               \* witness.wtns: the result of the witness generator
    tx,                    \* the registerResource transaction in execution, if any
    registrations,         \* the arguments of the registerResource calls that completed
    fs,                    \* the files the scripts write, other than input.json and witness.wtns,
                           \* and the contributions made with the entropy each was given
    run                    \* the script in execution, its position, the last exit codes, the
                           \* last command of the setup chain the run completed with its output,
                           \* and the contracts deploy.js has deployed

vars == <<verifierContract, resourcePermissions, resourceData, events, call,
          input, witness, tx, registrations, fs, run>>

txVars == <<tx, registrations>>

setupVars == <<fs, run>>

gatewayVars == <<verifierContract, resourcePermissions, resourceData, events, call>>

----------------------------------------------------------------------------
(* Bounds of the model.                                                    *)

\* Permission levels handed to the gateway and to the prover: 0..MaxPermission.
MaxPermission == 1

\* registerResource is enabled while fewer than MaxEvents events were emitted.
MaxEvents == 2

\* Bit width of the comparator.  The circuit instantiates GreaterEqThan(32);
\* the model computes the same gates at width W.
W == 4

\* Order of the scalar field the signals live in (a 254-bit prime in the
\* build; any modulus above 2^(W+1) leaves in-range arithmetic unwrapped).
FieldP == 131

\* The outcomes of one contribution's randomness: snarkjs hashes the -e text
\* together with fresh system randomness, so two runs of the same command
\* give different contributions.  1..MaxEntropy.
MaxEntropy == 2

Permissions == 0 .. MaxPermission

\* uint256 resource identifiers; 67890 is the sample resource of deploy.js.
ResourceIds == {12345, 67890}

\* string payloads; "" is the value of an unset mapping entry.
Payloads == {"secret", "public"}

Addresses == {"verifier", "verifier2"}

\* msg.sender of a call: the account that deployed the gateway, and another.
Callers == {"deployer", "stranger"}

RECURSIVE Pow2(_)
Pow2(n) == IF n = 0 THEN 1 ELSE 2 * Pow2(n - 1)

\* Values that fit the declared bit width.
InRange == 0 .. (Pow2(W) - 1)

----------------------------------------------------------------------------
(* The constraint system: circomlib's comparators and the DataAccess        *)
(* template.                                                                *)

\* Bit i of the non-negative integer x.
Bit(x, i) == (x \div Pow2(i)) % 2

RECURSIVE BitSum(_, _)
BitSum(x, n) == IF n = 0 THEN 0 ELSE BitSum(x, n - 1) + Bit(x, n - 1) * Pow2(n - 1)

\* Num2Bits(n): out[i] <-- (in >> i) & 1, each out[i] boolean, and the
\* constraint  sum out[i] * 2^i === in.  ok is whether the constraint holds.
Num2Bits(n, in) ==
    [out |-> [i \in 0 .. (n - 1) |-> Bit(in, i)],
     ok  |-> (BitSum(in, n) % FieldP = in)]

\* LessThan(n): n2b = Num2Bits(n+1); n2b.in <== in[0] + (1<<n) - in[1];
\* out <== 1 - n2b.out[n].
LessThan(n, in0, in1) ==
    LET n2b == Num2Bits(n + 1, (in0 + Pow2(n) - in1) % FieldP)
    IN  [out |-> 1 - n2b.out[n], ok |-> n2b.ok]

\* GreaterEqThan(n): lt = LessThan(n); lt.in[0] <== in[1]; lt.in[1] <== in[0] + 1;
\* lt.out ==> out.
GreaterEqThan(n, in0, in1) == LessThan(n, in1, (in0 + 1) % FieldP)

\* A DataAccess that wires the comparator's inputs the other way round.
DataAccess_Swapped(userPermission, requiredPermission, resourceId) ==
    LET comparison == GreaterEqThan(W, requiredPermission, userPermission)
    IN  [status             |-> IF comparison.ok THEN "ok" ELSE "failed",
         userPermission     |-> userPermission,
         requiredPermission |-> requiredPermission,
         resourceId         |-> resourceId,
         accessGranted      |-> comparison.out,
         resourceIdCheck    |-> resourceId]

\* template DataAccess: the full assignment of the circuit's signals.
DataAccess(userPermission, requiredPermission, resourceId) ==
    LET comparison == GreaterEqThan(W, userPermission, requiredPermission)
    IN  [status             |-> IF comparison.ok THEN "ok" ELSE "failed",
         userPermission     |-> userPermission,
         requiredPermission |-> requiredPermission,
         resourceId         |-> resourceId,
         accessGranted      |-> comparison.out,
         resourceIdCheck    |-> resourceId]

NoWitness ==
    [status |-> "none", userPermission |-> 0, requiredPermission |-> 0,
     resourceId |-> 0, accessGranted |-> 0, resourceIdCheck |-> 0]

NoInput == [given |-> FALSE, userPermission |-> 0, requiredPermission |-> 0, resourceId |-> 0]

\* The public signals of  component main {public [requiredPermission, resourceId]}:
\* the circuit's output first, then its public inputs in declaration order.
PublicSignals(w) == <<w.accessGranted, w.requiredPermission, w.resourceId>>

----------------------------------------------------------------------------
(* Prover and Verifier (snarkjs groth16 prove / verify).  A proof is       *)
(* opaque bytes to the gateway; the model records the statement it proves. *)
(* The blinding scalars of a proof enter no decision of the gateway and    *)
(* are left out of the record.                                             *)

Prove(w) == [forged |-> FALSE, stmt |-> PublicSignals(w)]

\* Bytes that no run of the prover produced.
ForgedProof == [forged |-> TRUE, stmt |-> <<0, 0, 0>>]

\* The pairing check: accepts exactly a proof of the statement given as
\* public signals.
Verify(proof, publicSignals) ==
    /\ ~proof.forged
    /\ Len(publicSignals) = 3
    /\ proof.stmt = publicSignals

\* The proofs a caller may hand to the gateway.
Proofs ==
    {Prove(DataAccess(u, q, r)) :
        u \in Permissions, q \in Permissions, r \in ResourceIds}
    \cup {ForgedProof}

\* interact.js: const publicSignals = [requiredPermission, resourceId].
ClientSignals(requiredPermission, resourceId) == <<requiredPermission, resourceId>>

----------------------------------------------------------------------------
(* The gateway: contract ZKDataAccess.                                     *)

NoCall ==
    [op |-> "none", resourceId |-> 0, requiredPermission |-> 0, data |-> "",
     proof |-> ForgedProof, publicSignals |-> <<0, 0>>, newVerifier |-> "",
     sender |-> "",
     status |-> "ok", error |-> "", accessGranted |-> FALSE, returned |-> ""]

\* require(cond, msg) failing: the call reverts with msg and returns nothing.
Revert(c, msg) == [c EXCEPT !.status = "revert", !.error = msg]

\* return (accessGranted, data)
Return(c, granted, d) == [c EXCEPT !.accessGranted = granted, !.returned = d]

\* A registerResource that keeps the larger of the stored and the new level.
RegisterPermissions_KeepMax(resourceId, requiredPermission) ==
    [resourcePermissions EXCEPT
        ![resourceId] = IF @ > requiredPermission THEN @ ELSE requiredPermission]

\* resourcePermissions[resourceId] = requiredPermission;
RegisterPermissions(resourceId, requiredPermission) ==
    [resourcePermissions EXCEPT ![resourceId] = requiredPermission]

\* A registerResource that does not store the data.
RegisterData_Skipped(resourceId, data) == resourceData

\* resourceData[resourceId] = data;
RegisterData(resourceId, data) ==
    [resourceData EXCEPT ![resourceId] = data]

\* An event that carries its two arguments in each other's place.
ResourceRegistered_Swapped(resourceId, requiredPermission) ==
    [name |-> "ResourceRegistered", resourceId |-> requiredPermission,
     requiredPermission |-> resourceId]

\* emit ResourceRegistered(resourceId, requiredPermission);
ResourceRegistered(resourceId, requiredPermission) ==
    [name |-> "ResourceRegistered", resourceId |-> resourceId,
     requiredPermission |-> requiredPermission]

\* A gateway that takes every resourceId for a registered one.
ResourceExists_Unchecked(resourceId) == TRUE

\* require(resourcePermissions[resourceId] > 0, "Resource not registered")
ResourceExists(resourceId) == resourcePermissions[resourceId] > 0

\* A gateway that does not compare publicSignals[0] with the stored level.
PermissionMatches_Unchecked(resourceId, publicSignals) == TRUE

\* require(publicSignals[0] == resourcePermissions[resourceId], ...)
PermissionMatches(resourceId, publicSignals) ==
    publicSignals[1] = resourcePermissions[resourceId]

\* A gateway that does not compare publicSignals[1] with resourceId.
ResourceIdMatches_Unchecked(resourceId, publicSignals) == TRUE

\* require(publicSignals[1] == resourceId, ...)
ResourceIdMatches(resourceId, publicSignals) ==
    publicSignals[2] = resourceId

\* bool verificationResult = true; // Placeholder
verificationResult(proof, publicSignals) == TRUE

\* function verifyAccess: the result of the call in the current state.
verifyAccess(resourceId, proof, publicSignals) ==
    LET c == [NoCall EXCEPT !.op = "verifyAccess", !.resourceId = resourceId,
                            !.proof = proof, !.publicSignals = publicSignals]
    IN  IF ~ResourceExists(resourceId)
            THEN Revert(c, "Resource not registered")
        ELSE IF ~PermissionMatches(resourceId, publicSignals)
            THEN Revert(c, "Invalid required permission")
        ELSE IF ~ResourceIdMatches(resourceId, publicSignals)
            THEN Revert(c, "Invalid resource ID")
        ELSE IF verificationResult(proof, publicSignals)
            THEN Return(c, TRUE, resourceData[resourceId])
        ELSE Return(c, FALSE, "")

\* A file that does not exist, for the files that hold key material.
Absent == <<>>

\* proof.json before the prover wrote it.
NoProofFile == [key |-> Absent, proof |-> ForgedProof]

\* verification_key.json and Verifier.sol before they are exported.
NoVerificationKey == [protocol |-> "", key |-> Absent]

NoVerifierSol == [pragma |-> "", key |-> Absent]

\* The working tree before any script ran: circuits/build is empty;
\* scripts/deploy.js is part of the checkout.
NoFiles ==
    [r1cs |-> FALSE, wasm |-> FALSE, ptauTemp |-> FALSE,
     ptau0 |-> Absent, ptau1 |-> Absent, ptau |-> Absent,
     zkey0 |-> Absent, zkeyFinal |-> Absent, vk |-> NoVerificationKey,
     verifierSol |-> NoVerifierSol,
     proofJson |-> NoProofFile, publicJson |-> <<>>, calldata |-> FALSE,
     deployJs |-> TRUE, contributed |-> {}]

\* No script is in execution and none has exited yet.
NoRun ==
    [script |-> "none", pc |-> "", caller |-> "none",
     compileExit |-> -1, demoExit |-> -1, verifyOutput |-> "",
     step |-> "", out |-> Absent,
     deployExit |-> -1, verifierAddress |-> "", gateway |-> FALSE]

\* No transaction is in execution.
NoTx ==
    [pc |-> "idle", resourceId |-> 0, requiredPermission |-> 0, data |-> "",
     savedPermissions |-> [id \in ResourceIds |-> 0],
     savedData |-> [id \in ResourceIds |-> ""]]

\* constructor(address _verifierContract); deploy.js passes the Verifier's address.
Init ==
    /\ verifierContract = "verifier"
    /\ resourcePermissions = [id \in ResourceIds |-> 0]
    /\ resourceData = [id \in ResourceIds |-> ""]
    /\ events = <<>>
    /\ call = NoCall
    /\ input = NoInput
    /\ witness = NoWitness
    /\ tx = NoTx
    /\ registrations = {}
    /\ fs = NoFiles
    /\ run = NoRun

\* function registerResource(resourceId, requiredPermission, data) external
RegisterResource(resourceId, requiredPermission, data) ==
    /\ Len(events) < MaxEvents
    /\ resourcePermissions' = RegisterPermissions(resourceId, requiredPermission)
    /\ resourceData' = RegisterData(resourceId, data)
    /\ events' = Append(events, ResourceRegistered(resourceId, requiredPermission))
    /\ call' = [NoCall EXCEPT !.op = "registerResource", !.resourceId = resourceId,
                              !.requiredPermission = requiredPermission, !.data = data]
    /\ UNCHANGED <<verifierContract, input, witness, txVars, setupVars>>

\* A verifyAccess that emits the declared AccessVerified event.
VerifyAccess_Emitting(resourceId, proof, publicSignals) ==
    /\ call' = verifyAccess(resourceId, proof, publicSignals)
    /\ events' = Append(events, [name |-> "AccessVerified", resourceId |-> resourceId,
                                 requiredPermission |-> 0])
    /\ UNCHANGED <<verifierContract, resourcePermissions, resourceData,
                   input, witness, txVars, setupVars>>

\* function verifyAccess(resourceId, proof, publicSignals) external view
VerifyAccess(resourceId, proof, publicSignals) ==
    /\ call' = verifyAccess(resourceId, proof, publicSignals)
    /\ UNCHANGED <<verifierContract, resourcePermissions, resourceData, events,
                   input, witness, txVars, setupVars>>

\* An updateVerifier that also clears the stored data.
UpdateVerifier_Clearing(sender, newVerifier) ==
    /\ verifierContract' = newVerifier
    /\ resourceData' = [id \in ResourceIds |-> ""]
    /\ call' = [NoCall EXCEPT !.op = "updateVerifier", !.newVerifier = newVerifier,
                              !.sender = sender]
    /\ UNCHANGED <<resourcePermissions, events, input, witness, txVars, setupVars>>

\* function updateVerifier(address _newVerifier) external, called by sender.
\* "In a real implementation, we would add access control here": msg.sender
\* is not read.
UpdateVerifier(sender, newVerifier) ==
    /\ verifierContract' = newVerifier
    /\ call' = [NoCall EXCEPT !.op = "updateVerifier", !.newVerifier = newVerifier,
                              !.sender = sender]
    /\ UNCHANGED <<resourcePermissions, resourceData, events, input, witness, txVars, setupVars>>

\* The call has returned to its caller: its result is taken and the contract
\* waits for the next call.  Calls to the contract run one after another.
CallReturns ==
    /\ call # NoCall
    /\ call' = NoCall
    /\ UNCHANGED <<verifierContract, resourcePermissions, resourceData, events,
                   input, witness, txVars, setupVars>>

Next ==
    \/ \E id \in ResourceIds, p \in Permissions, d \in Payloads :
          call = NoCall /\ RegisterResource(id, p, d)
    \/ \E id \in ResourceIds, proof \in Proofs,
          q \in Permissions, r \in ResourceIds :
          call = NoCall /\ VerifyAccess(id, proof, <<q, r>>)
    \/ \E sender \in Callers, a \in Addresses :
          call = NoCall /\ UpdateVerifier(sender, a)
    \/ CallReturns

Spec == Init /\ [][Next]_vars

----------------------------------------------------------------------------
(* registerResource statement by statement.  The execution environment     *)
(* runs one transaction at a time and undoes the writes of a transaction   *)
(* that fails (it can only run out of gas: the function has no require).   *)

\* A registerResource transaction starts: the state it would be reverted to
\* is the state it starts in.
TxBegin(resourceId, requiredPermission, data) ==
    /\ tx.pc = "idle"
    /\ Len(events) < MaxEvents
    /\ tx' = [pc |-> "permission", resourceId |-> resourceId,
              requiredPermission |-> requiredPermission, data |-> data,
              savedPermissions |-> resourcePermissions,
              savedData |-> resourceData]
    /\ UNCHANGED <<gatewayVars, input, witness, registrations, setupVars>>

\* resourcePermissions[resourceId] = requiredPermission;
TxWritePermission ==
    /\ tx.pc = "permission"
    /\ resourcePermissions' = RegisterPermissions(tx.resourceId, tx.requiredPermission)
    /\ tx' = [tx EXCEPT !.pc = "data"]
    /\ UNCHANGED <<verifierContract, resourceData, events, call, input, witness,
                   registrations, setupVars>>

\* resourceData[resourceId] = data;
TxWriteData ==
    /\ tx.pc = "data"
    /\ resourceData' = RegisterData(tx.resourceId, tx.data)
    /\ tx' = [tx EXCEPT !.pc = "emit"]
    /\ UNCHANGED <<verifierContract, resourcePermissions, events, call, input,
                   witness, registrations, setupVars>>

\* emit ResourceRegistered(resourceId, requiredPermission); the function
\* returns and the transaction is committed.
TxEmit ==
    /\ tx.pc = "emit"
    /\ events' = Append(events, ResourceRegistered(tx.resourceId, tx.requiredPermission))
    /\ registrations' = registrations \cup
            {[resourceId |-> tx.resourceId,
              requiredPermission |-> tx.requiredPermission, data |-> tx.data]}
    /\ call' = [NoCall EXCEPT !.op = "registerResource", !.resourceId = tx.resourceId,
                              !.requiredPermission = tx.requiredPermission,
                              !.data = tx.data]
    /\ tx' = NoTx
    /\ UNCHANGED <<verifierContract, resourcePermissions, resourceData, input, witness,
                   setupVars>>

\* The transaction fails before its next statement: every write is undone.
TxFail ==
    /\ tx.pc # "idle"
    /\ resourcePermissions' = tx.savedPermissions
    /\ resourceData' = tx.savedData
    /\ call' = Revert([NoCall EXCEPT !.op = "registerResource",
                                     !.resourceId = tx.resourceId,
                                     !.requiredPermission = tx.requiredPermission,
                                     !.data = tx.data], "out of gas")
    /\ tx' = NoTx
    /\ UNCHANGED <<verifierContract, events, input, witness, registrations, setupVars>>

\* The calls that run between transactions.  The proof does not enter the
\* result of verifyAccess (verificationResult), so one value of it is drawn.
NextRegister ==
    \/ \E id \in ResourceIds, p \in Permissions, d \in Payloads : TxBegin(id, p, d)
    \/ TxWritePermission
    \/ TxWriteData
    \/ TxEmit
    \/ TxFail
    \/ \E id \in ResourceIds, q \in Permissions, r \in ResourceIds :
          tx.pc = "idle" /\ VerifyAccess(id, ForgedProof, <<q, r>>)
    \/ \E sender \in Callers, a \in Addresses :
          tx.pc = "idle" /\ UpdateVerifier(sender, a)

SpecRegister == Init /\ [][NextRegister]_vars

----------------------------------------------------------------------------
(* The witness generator applied to one input assignment                   *)
(* (snarkjs wtns calculate data_access.wasm input.json witness.wtns).      *)

InitCircuit ==
    /\ verifierContract = "verifier"
    /\ resourcePermissions = [id \in ResourceIds |-> 0]
    /\ resourceData = [id \in ResourceIds |-> ""]
    /\ events = <<>>
    /\ call = NoCall
    /\ input \in [given : {TRUE}, userPermission : InRange,
                  requiredPermission : InRange, resourceId : ResourceIds]
    /\ witness = NoWitness
    /\ tx = NoTx
    /\ registrations = {}
    /\ fs = NoFiles
    /\ run = NoRun

GenerateWitness ==
    /\ input.given
    /\ witness.status = "none"
    /\ witness' = DataAccess(input.userPermission, input.requiredPermission,
                             input.resourceId)
    /\ UNCHANGED <<input, gatewayVars, txVars, setupVars>>

NextCircuit == GenerateWitness

SpecCircuit == InitCircuit /\ [][NextCircuit]_vars

\* The values an input signal can take: every element of the field.  A
\* negative number given as input is its residue, -1 is FieldP - 1.
FieldElements == 0 .. (FieldP - 1)

\* The witness generator takes every input.json; the circuit has no range
\* check of its own on userPermission and requiredPermission.
InitCircuitField ==
    /\ verifierContract = "verifier"
    /\ resourcePermissions = [id \in ResourceIds |-> 0]
    /\ resourceData = [id \in ResourceIds |-> ""]
    /\ events = <<>>
    /\ call = NoCall
    /\ input \in [given : {TRUE}, userPermission : FieldElements,
                  requiredPermission : FieldElements, resourceId : ResourceIds]
    /\ witness = NoWitness
    /\ tx = NoTx
    /\ registrations = {}
    /\ fs = NoFiles
    /\ run = NoRun

SpecCircuitField == InitCircuitField /\ [][NextCircuit]_vars

----------------------------------------------------------------------------
(* The setup, prove and verify workflow: scripts/compile-circuit.js and    *)
(* scripts/zkdap-demo.js, one action per command.  A transcript or key     *)
(* file is the sequence of contributions it was derived from.  A command   *)
(* that fails writes nothing and ends the script with exit code 1.         *)

Entropy == 1 .. MaxEntropy

\* The entropy both contribute commands are given: -e="random text".
EntropyArg == "random text"

\* The string literals of scripts/compile-circuit.js an observer reads in the
\* script file and in the command lines it runs.
ScriptLiterals == {"First contribution", "random text", "^0.8.19"}

\* snarkjs powersoftau new bn128 12 pot12_0000.ptau
PowersOfTauNew == <<0>>

\* snarkjs powersoftau contribute pot12_0000.ptau pot12_0001.ptau
PowersOfTauContribute(ptau, e) == Append(ptau, e)

\* snarkjs powersoftau prepare phase2 pot12_0001.ptau pot12_final.ptau
PreparePhase2(ptau) == Append(ptau, 0)

\* The transcript prepare phase2 would read were it the uncontributed one.
PrepareSource_Initial(f) == f.ptau0

\* The transcript prepare phase2 names: ptau_temp/pot12_0001.ptau.
PrepareSource(f) == f.ptau1

\* snarkjs groth16 setup data_access.r1cs pot12_final.ptau data_access_0000.zkey
Groth16Setup(ptau) == Append(ptau, 0)

\* snarkjs zkey contribute data_access_0000.zkey data_access_final.zkey
ZkeyContribute(zkey, e) == Append(zkey, e)

\* The key file the two export commands would read were it the initial key.
ExportedZkey_Initial(f) == f.zkey0

\* The key file both export commands name: data_access_final.zkey.
ExportedZkey(f) == f.zkeyFinal

\* snarkjs zkey export verificationkey: the verifying part of the key.
ExportVerificationKey(zkey) == [protocol |-> "groth16", key |-> zkey]

\* snarkjs zkey export solidityverifier: the same key as contract constants.
ExportSolidityVerifier(zkey) == [pragma |-> "generated", key |-> zkey]

\* verifierContent.replace(/pragma solidity .../, 'pragma solidity ^0.8.19')
FixPragma(sol) == [sol EXCEPT !.pragma = "^0.8.19"]

\* const sampleInput = { userPermission: 10, requiredPermission: 5, resourceId: 67890 }
sampleInput ==
    [given |-> TRUE, userPermission |-> 10, requiredPermission |-> 5,
     resourceId |-> 67890]

\* snarkjs groth16 prove data_access_final.zkey witness.wtns proof.json public.json
ProveWith(zkey, w) == [key |-> zkey, proof |-> Prove(w)]

\* snarkjs groth16 verify verification_key.json public.json proof.json
VerifyWith(vk, publicSignals, proofFile) ==
    /\ vk.key # Absent
    /\ vk.key = proofFile.key
    /\ Verify(proofFile.proof, publicSignals)

\* The directory each script writes a file to.
Dir ==
    [inputJson      |-> "circuits/build",
     witnessWtns    |-> "circuits/build",
     zkeyFinal      |-> "circuits/build",
     vk             |-> "circuits/build",
     proofJson      |-> "circuits/build",
     publicJson     |-> "circuits/build",
     verifierSol    |-> "contracts/zkdap"]

At(script, pc) == run.script = script /\ run.pc = pc

Goto(pc) == run' = [run EXCEPT !.pc = pc]

\* A command of the setup chain completed in this run and left its
\* transcript or key file; control passes to the next statement.
Produced(step, out, pc) == run' = [run EXCEPT !.pc = pc, !.step = step, !.out = out]

\* The script ending with exit code 0 whatever code it was given.
CompileExit_Success(code) ==
    [run EXCEPT !.script = "none", !.pc = "", !.caller = "none", !.compileExit = 0]

\* process.exit(code) of compile-circuit.js.  Run by zkdap-demo.js through
\* execSync, exit code 0 returns to the demo and any other ends the demo
\* with exit code 1.
CompileExit(code) ==
    IF run.caller = "demo"
    THEN IF code = 0
         THEN [run EXCEPT !.script = "demo", !.pc = "read_input",
                          !.caller = "none", !.compileExit = 0]
         ELSE [run EXCEPT !.script = "none", !.pc = "", !.caller = "none",
                          !.compileExit = code, !.demoExit = 1]
    ELSE [run EXCEPT !.script = "none", !.pc = "", !.compileExit = code]

\* node scripts/compile-circuit.js
StartCompile ==
    /\ run.script = "none"
    /\ run' = [run EXCEPT !.script = "compile", !.pc = "circom_check",
                          !.caller = "none", !.compileExit = -1,
                          !.step = "", !.out = Absent]
    /\ UNCHANGED <<gatewayVars, input, witness, txVars, fs>>

\* Step 1: circom --version
CheckCircom ==
    /\ At("compile", "circom_check")
    /\ Goto("circom")
    /\ UNCHANGED <<gatewayVars, input, witness, txVars, fs>>

\* Step 2: circom data_access.circom --r1cs --wasm --sym
CompileCircuit ==
    /\ At("compile", "circom")
    /\ fs' = [fs EXCEPT !.r1cs = TRUE, !.wasm = TRUE]
    /\ Goto("ptau_check")
    /\ UNCHANGED <<gatewayVars, input, witness, txVars>>

\* A test that finds no Powers of Tau file whatever is there.
PtauExists_Never(f) == FALSE

\* fs.existsSync(PTAU_FILE)
PtauExists(f) == f.ptau # Absent

\* Step 3, else branch: the Powers of Tau file exists and is used as it is.
UseExistingPtau ==
    /\ At("compile", "ptau_check")
    /\ PtauExists(fs)
    /\ Goto("groth16_setup")
    /\ UNCHANGED <<gatewayVars, input, witness, txVars, fs>>

\* Step 3: if (!fs.existsSync(PTAU_FILE)), make the temporary directory.
MakePtauTempDir ==
    /\ At("compile", "ptau_check")
    /\ ~PtauExists(fs)
    /\ fs' = [fs EXCEPT !.ptauTemp = TRUE]
    /\ Goto("ptau_new")
    /\ UNCHANGED <<gatewayVars, input, witness, txVars>>

PtauNew ==
    /\ At("compile", "ptau_new")
    /\ fs' = [fs EXCEPT !.ptau0 = PowersOfTauNew]
    /\ Produced("ptau_new", fs'.ptau0, "ptau_contribute")
    /\ UNCHANGED <<gatewayVars, input, witness, txVars>>

PtauContribute(e) ==
    /\ At("compile", "ptau_contribute")
    /\ fs' = [fs EXCEPT !.ptau1 = PowersOfTauContribute(fs.ptau0, e),
                        !.contributed = @ \cup {[chain |-> "ptau", entropy |-> EntropyArg]}]
    /\ Produced("ptau_contribute", fs'.ptau1, "ptau_prepare")
    /\ UNCHANGED <<gatewayVars, input, witness, txVars>>

PtauPrepare ==
    /\ At("compile", "ptau_prepare")
    /\ fs' = [fs EXCEPT !.ptau = PreparePhase2(PrepareSource(fs))]
    /\ Produced("ptau_prepare", fs'.ptau, "ptau_cleanup")
    /\ UNCHANGED <<gatewayVars, input, witness, txVars>>

\* fs.rmSync(ptauTempDir, { recursive: true, force: true })
PtauCleanup ==
    /\ At("compile", "ptau_cleanup")
    /\ fs' = [fs EXCEPT !.ptauTemp = FALSE, !.ptau0 = Absent, !.ptau1 = Absent]
    /\ Goto("groth16_setup")
    /\ UNCHANGED <<gatewayVars, input, witness, txVars>>

\* Step 4, run whether or not the key files exist.
SetupZkey ==
    /\ At("compile", "groth16_setup")
    /\ fs.r1cs
    /\ fs.ptau # Absent
    /\ fs' = [fs EXCEPT !.zkey0 = Groth16Setup(fs.ptau)]
    /\ Produced("groth16_setup", fs'.zkey0, "zkey_contribute")
    /\ UNCHANGED <<gatewayVars, input, witness, txVars>>

ContributeZkey(e) ==
    /\ At("compile", "zkey_contribute")
    /\ fs' = [fs EXCEPT !.zkeyFinal = ZkeyContribute(fs.zkey0, e),
                        !.contributed = @ \cup {[chain |-> "zkey", entropy |-> EntropyArg]}]
    /\ Produced("zkey_contribute", fs'.zkeyFinal, "export_vk")
    /\ UNCHANGED <<gatewayVars, input, witness, txVars>>

ExportVk ==
    /\ At("compile", "export_vk")
    /\ fs' = [fs EXCEPT !.vk = ExportVerificationKey(ExportedZkey(fs))]
    /\ Produced("export_vk", run.out, "export_sol")
    /\ UNCHANGED <<gatewayVars, input, witness, txVars>>

\* Step 5
ExportSol ==
    /\ At("compile", "export_sol")
    /\ fs' = [fs EXCEPT !.verifierSol = ExportSolidityVerifier(ExportedZkey(fs))]
    /\ Produced("export_sol", run.out, "fix_pragma")
    /\ UNCHANGED <<gatewayVars, input, witness, txVars>>

RewritePragma ==
    /\ At("compile", "fix_pragma")
    /\ fs' = [fs EXCEPT !.verifierSol = FixPragma(fs.verifierSol)]
    /\ Goto("write_input")
    /\ UNCHANGED <<gatewayVars, input, witness, txVars>>

\* Step 6: fs.writeFileSync(path.join(BUILD_DIR, 'input.json'), ...)
WriteSampleInput ==
    /\ At("compile", "write_input")
    /\ input' = sampleInput
    /\ Goto("exit")
    /\ UNCHANGED <<gatewayVars, witness, txVars, fs>>

\* process.exit(0)
CompileDone ==
    /\ At("compile", "exit")
    /\ run' = CompileExit(0)
    /\ UNCHANGED <<gatewayVars, input, witness, txVars, fs>>

\* The command or file operation of the current step throws: the catch
\* block (for Step 6 the uncaught exception) ends the process with code 1.
CompileFail ==
    /\ run.script = "compile"
    /\ run.pc # "exit"
    /\ run' = CompileExit(1)
    /\ UNCHANGED <<gatewayVars, input, witness, txVars, fs>>

\* node scripts/zkdap-demo.js
StartDemo ==
    /\ run.script = "none"
    /\ run' = [run EXCEPT !.script = "demo", !.pc = "check_wasm",
                          !.demoExit = -1, !.verifyOutput = ""]
    /\ UNCHANGED <<gatewayVars, input, witness, txVars, fs>>

\* if (!fs.existsSync(WASM_FILE)) execSync('node scripts/compile-circuit.js')
DemoCompile ==
    /\ At("demo", "check_wasm")
    /\ ~fs.wasm
    /\ run' = [run EXCEPT !.script = "compile", !.pc = "circom_check",
                          !.caller = "demo", !.compileExit = -1,
                          !.step = "", !.out = Absent]
    /\ UNCHANGED <<gatewayVars, input, witness, txVars, fs>>

DemoSkipCompile ==
    /\ At("demo", "check_wasm")
    /\ fs.wasm
    /\ Goto("read_input")
    /\ UNCHANGED <<gatewayVars, input, witness, txVars, fs>>

\* JSON.parse(fs.readFileSync(INPUT_FILE, 'utf8'))
DemoReadInput ==
    /\ At("demo", "read_input")
    /\ input.given
    /\ Goto("wtns_calculate")
    /\ UNCHANGED <<gatewayVars, input, witness, txVars, fs>>

\* [1] snarkjs wtns calculate data_access.wasm input.json witness.wtns
DemoWitness ==
    /\ At("demo", "wtns_calculate")
    /\ fs.wasm
    /\ input.given
    /\ LET w == DataAccess(input.userPermission, input.requiredPermission,
                           input.resourceId)
       IN  /\ w.status = "ok"
           /\ witness' = w
    /\ Goto("prove")
    /\ UNCHANGED <<gatewayVars, input, txVars, fs>>

\* [2] snarkjs groth16 prove
DemoProve ==
    /\ At("demo", "prove")
    /\ fs.zkeyFinal # Absent
    /\ witness.status = "ok"
    /\ fs' = [fs EXCEPT !.proofJson = ProveWith(fs.zkeyFinal, witness),
                        !.publicJson = PublicSignals(witness)]
    /\ Goto("verify")
    /\ UNCHANGED <<gatewayVars, input, witness, txVars>>

\* [3] snarkjs groth16 verify, its output holding 'OK'.
DemoVerifyOk ==
    /\ At("demo", "verify")
    /\ VerifyWith(fs.vk, fs.publicJson, fs.proofJson)
    /\ run' = [run EXCEPT !.pc = "calldata", !.verifyOutput = "OK"]
    /\ UNCHANGED <<gatewayVars, input, witness, txVars, fs>>

\* [3] the command returns and its output holds no 'OK': the else branch
\* prints the failure and the script goes on.
DemoVerifyInvalid ==
    /\ At("demo", "verify")
    /\ fs.vk.key # Absent
    /\ ~VerifyWith(fs.vk, fs.publicJson, fs.proofJson)
    /\ run' = [run EXCEPT !.pc = "calldata", !.verifyOutput = "INVALID"]
    /\ UNCHANGED <<gatewayVars, input, witness, txVars, fs>>

\* [4] snarkjs zkey export soliditycalldata, saved to calldata.txt
DemoCalldata ==
    /\ At("demo", "calldata")
    /\ fs' = [fs EXCEPT !.calldata = TRUE]
    /\ Goto("deploy_script")
    /\ UNCHANGED <<gatewayVars, input, witness, txVars>>

\* [5] if (!fs.existsSync('deploy.js')) fs.writeFileSync('deploy.js', ...)
DemoCreateDeployScript ==
    /\ At("demo", "deploy_script")
    /\ ~fs.deployJs
    /\ fs' = [fs EXCEPT !.deployJs = TRUE]
    /\ Goto("exit")
    /\ UNCHANGED <<gatewayVars, input, witness, txVars>>

DemoDeployScriptExists ==
    /\ At("demo", "deploy_script")
    /\ fs.deployJs
    /\ Goto("exit")
    /\ UNCHANGED <<gatewayVars, input, witness, txVars, fs>>

\* [5] the write throws: "Non-critical error, continue".
DemoDeployScriptFails ==
    /\ At("demo", "deploy_script")
    /\ ~fs.deployJs
    /\ Goto("exit")
    /\ UNCHANGED <<gatewayVars, input, witness, txVars, fs>>

\* process.exit(0)
DemoDone ==
    /\ At("demo", "exit")
    /\ run' = [run EXCEPT !.script = "none", !.pc = "", !.demoExit = 0]
    /\ UNCHANGED <<gatewayVars, input, witness, txVars, fs>>

\* The steps of the demo with the deployment-script step among those whose
\* failure ends the script.
DemoCriticalSteps_WithDeploy ==
    {"read_input", "wtns_calculate", "prove", "verify", "calldata", "deploy_script"}

\* The steps of the demo whose catch block calls process.exit(1).
DemoCriticalSteps == {"read_input", "wtns_calculate", "prove", "verify", "calldata"}

\* The read or command of the current step throws: process.exit(1).
DemoFail ==
    /\ run.script = "demo"
    /\ run.pc \in DemoCriticalSteps
    /\ run' = [run EXCEPT !.script = "none", !.pc = "", !.demoExit = 1]
    /\ UNCHANGED <<gatewayVars, input, witness, txVars, fs>>

\* A checkout with or without scripts/deploy.js, before any script ran.
InitSetup ==
    /\ verifierContract = "verifier"
    /\ resourcePermissions = [id \in ResourceIds |-> 0]
    /\ resourceData = [id \in ResourceIds |-> ""]
    /\ events = <<>>
    /\ call = NoCall
    /\ input = NoInput
    /\ witness = NoWitness
    /\ tx = NoTx
    /\ registrations = {}
    /\ fs \in {NoFiles, [NoFiles EXCEPT !.deployJs = FALSE]}
    /\ run = NoRun

NextSetup ==
    \/ StartCompile
    \/ CheckCircom
    \/ CompileCircuit
    \/ UseExistingPtau
    \/ MakePtauTempDir
    \/ PtauNew
    \/ \E e \in Entropy : PtauContribute(e)
    \/ PtauPrepare
    \/ PtauCleanup
    \/ SetupZkey
    \/ \E e \in Entropy : ContributeZkey(e)
    \/ ExportVk
    \/ ExportSol
    \/ RewritePragma
    \/ WriteSampleInput
    \/ CompileDone
    \/ CompileFail
    \/ StartDemo
    \/ DemoCompile
    \/ DemoSkipCompile
    \/ DemoReadInput
    \/ DemoWitness
    \/ DemoProve
    \/ DemoVerifyOk
    \/ DemoVerifyInvalid
    \/ DemoCalldata
    \/ DemoCreateDeployScript
    \/ DemoDeployScriptExists
    \/ DemoDeployScriptFails
    \/ DemoDone
    \/ DemoFail

SpecSetup == InitSetup /\ [][NextSetup]_vars

----------------------------------------------------------------------------
(* scripts/deploy.js, one action per awaited transaction, and the calls    *)
(* made to the deployed gateway afterwards.  The script runs against a     *)
(* local network (hardhat.config.js: hardhat, localhost) on which it is    *)
(* the only sender while it runs.                                          *)

\* A gateway constructed without the address it is given.
Constructor_NoVerifier(_verifierContract) ==
    [verifierContract |-> "",
     resourcePermissions |-> [id \in ResourceIds |-> 0],
     resourceData |-> [id \in ResourceIds |-> ""]]

\* constructor(address _verifierContract) { verifierContract = _verifierContract; }
\* The mappings of a new contract are empty.
Constructor(_verifierContract) ==
    [verifierContract |-> _verifierContract,
     resourcePermissions |-> [id \in ResourceIds |-> 0],
     resourceData |-> [id \in ResourceIds |-> ""]]

\* const resourceId = 67890; const requiredPermission = 5; const resourceData = "..."
sampleResource ==
    [resourceId |-> 67890, requiredPermission |-> 5,
     data |-> "This is sensitive data requiring permission level 5"]

\* npx hardhat run scripts/deploy.js, before any contract is deployed or
\* again later: every run deploys new contracts.
StartDeploy ==
    /\ run.script = "none"
    /\ call = NoCall
    /\ run' = [run EXCEPT !.script = "deploy", !.pc = "deploy_verifier",
                          !.deployExit = -1]
    /\ UNCHANGED <<gatewayVars, input, witness, txVars, fs>>

\* const verifier = await Verifier.deploy(); await verifier.waitForDeployment();
DeployVerifier(address) ==
    /\ At("deploy", "deploy_verifier")
    /\ run' = [run EXCEPT !.pc = "deploy_gateway", !.verifierAddress = address]
    /\ UNCHANGED <<gatewayVars, input, witness, txVars, fs>>

\* const zkDataAccess = await ZKDataAccess.deploy(await verifier.getAddress());
DeployGateway ==
    /\ At("deploy", "deploy_gateway")
    /\ LET new == Constructor(run.verifierAddress)
       IN  /\ verifierContract' = new.verifierContract
           /\ resourcePermissions' = new.resourcePermissions
           /\ resourceData' = new.resourceData
    /\ events' = <<>>
    /\ run' = [run EXCEPT !.pc = "register", !.gateway = TRUE]
    /\ UNCHANGED <<call, input, witness, txVars, fs>>

\* const tx = await zkDataAccess.registerResource(...); await tx.wait();
RegisterSample ==
    /\ At("deploy", "register")
    /\ resourcePermissions' =
          RegisterPermissions(sampleResource.resourceId, sampleResource.requiredPermission)
    /\ resourceData' = RegisterData(sampleResource.resourceId, sampleResource.data)
    /\ events' = Append(events, ResourceRegistered(sampleResource.resourceId,
                                                   sampleResource.requiredPermission))
    /\ Goto("exit")
    /\ UNCHANGED <<verifierContract, call, input, witness, txVars, fs>>

\* main().then(() => process.exit(0))
DeployDone ==
    /\ At("deploy", "exit")
    /\ run' = [run EXCEPT !.script = "none", !.pc = "", !.deployExit = 0]
    /\ UNCHANGED <<gatewayVars, input, witness, txVars, fs>>

\* An await rejects: .catch((error) => { console.error(error); process.exit(1); })
DeployFail ==
    /\ run.script = "deploy"
    /\ run.pc # "exit"
    /\ run' = [run EXCEPT !.script = "none", !.pc = "", !.deployExit = 1]
    /\ UNCHANGED <<gatewayVars, input, witness, txVars, fs>>

\* Nothing is deployed and no script has run.
InitDeploy ==
    /\ verifierContract = ""
    /\ resourcePermissions = [id \in ResourceIds |-> 0]
    /\ resourceData = [id \in ResourceIds |-> ""]
    /\ events = <<>>
    /\ call = NoCall
    /\ input = NoInput
    /\ witness = NoWitness
    /\ tx = NoTx
    /\ registrations = {}
    /\ fs = NoFiles
    /\ run = NoRun

\* The gateway is deployed and no script is running: it takes calls.
GatewayLive == run.script = "none" /\ run.gateway /\ call = NoCall

NextDeploy ==
    \/ StartDeploy
    \/ \E a \in Addresses : DeployVerifier(a)
    \/ DeployGateway
    \/ RegisterSample
    \/ DeployDone
    \/ DeployFail
    \/ \E id \in ResourceIds, p \in Permissions, d \in Payloads :
          GatewayLive /\ RegisterResource(id, p, d)
    \/ \E sender \in Callers, a \in Addresses :
          GatewayLive /\ UpdateVerifier(sender, a)
    \/ CallReturns

SpecDeploy == InitDeploy /\ [][NextDeploy]_vars

----------------------------------------------------------------------------
(* Vocabulary of the properties.                                           *)

IsVerifyCall == call.op = "verifyAccess"

\* The last call was a verifyAccess that returned (true, data).
Granted == IsVerifyCall /\ call.status = "ok" /\ call.accessGranted

\* The resourceIds registerResource has been called for.
RegisteredIds == {events[i].resourceId : i \in 1 .. Len(events)}

\* The Verifier's answer for a proof and the gateway's two public inputs,
\* whichever value the accessGranted output is given.
VerifierAccepts(proof, publicSignals) ==
    \E out \in {0, 1} : Verify(proof, <<out>> \o publicSignals)

\* The last call presented the proof the prover made for (u, q, id) together
\* with the public inputs of that very proof.
HonestRequest(u, q, id) ==
    /\ IsVerifyCall
    /\ call.proof = Prove(DataAccess(u, q, id))
    /\ call.publicSignals = ClientSignals(q, id)

----------------------------------------------------------------------------
(* Properties of the gateway (specification Spec).                         *)

\* C1: a (proof, publicSignals) pair produced for resource A is never granted
\* access when it is presented with another resourceId B, also when B's
\* stored requiredPermission equals A's: the call returns no grant and no data.
C1_NoCrossResourceReplay ==
    \A a \in ResourceIds, u \in Permissions, q \in Permissions :
        (HonestRequest(u, q, a) /\ call.resourceId # a)
            => (~Granted /\ call.returned = "")

\* C1 happens: A and B are both registered with the same threshold, a proof
\* that grants on A is presented on B and is turned down for its resourceId.
C1_Witness ==
    \E a \in ResourceIds, u \in Permissions, q \in Permissions :
        /\ HonestRequest(u, q, a)
        /\ u >= q
        /\ call.resourceId # a
        /\ {a, call.resourceId} \subseteq RegisteredIds
        /\ resourcePermissions[a] = q
        /\ resourcePermissions[call.resourceId] = q
        /\ q > 0
        /\ call.status = "revert"
        /\ call.error = "Invalid resource ID"

\* C2: verifyAccess returns granted = true only if the accessGranted public
\* signal that comes with the proof equals 1.
C2_GrantOnlyWithAccessGrantedSignal ==
    (Granted /\ ~call.proof.forged) => call.proof.stmt[1] = 1

\* C3: access is granted, and the payload disclosed, only for a proof the
\* Verifier accepts for the public signals of the call.
C3_GrantOnlyForAcceptedProof ==
    Granted => VerifierAccepts(call.proof, call.publicSignals)

\* C4: on a registered resourceId, a publicSignals vector whose
\* requiredPermission entry differs from the stored one, or whose resourceId
\* entry differs from the requested one, makes verifyAccess fail with a
\* public-signal mismatch error and return no payload.
C4_MismatchIsRejected ==
    ( /\ IsVerifyCall
      /\ call.resourceId \in RegisteredIds
      /\ \/ call.publicSignals[1] # resourcePermissions[call.resourceId]
         \/ call.publicSignals[2] # call.resourceId )
        => /\ call.status = "revert"
           /\ call.error \in {"Invalid required permission", "Invalid resource ID"}
           /\ call.returned = ""

\* C5: verifyAccess on a resourceId registerResource was never called for
\* fails with "Resource not registered", whatever the proof and the public
\* signals are; the public-signal checks do not come first.
C5_UnregisteredIsRejected ==
    (IsVerifyCall /\ call.resourceId \notin RegisteredIds)
        => /\ call.status = "revert"
           /\ call.error = "Resource not registered"
           /\ call.returned = ""

\* C5 happens: after a registration of another resource, a call on a never
\* registered resourceId whose public signals also mismatch reports the
\* missing registration.
C5_Witness ==
    /\ IsVerifyCall
    /\ events # <<>>
    /\ call.resourceId \notin RegisteredIds
    /\ call.publicSignals[1] # resourcePermissions[call.resourceId]
    /\ call.publicSignals[2] # call.resourceId
    /\ call.error = "Resource not registered"

\* C6: for a resource registered with (id, q, payload) and every
\* userPermission u >= q, the honest proof with the matching public signals
\* is granted access and returns exactly the registered payload.
C6_SufficientPermissionIsGranted ==
    \A u \in Permissions, q \in Permissions :
        ( /\ HonestRequest(u, q, call.resourceId)
          /\ call.resourceId \in RegisteredIds
          /\ resourcePermissions[call.resourceId] = q
          /\ u >= q )
            => /\ Granted
               /\ call.returned = resourceData[call.resourceId]

\* C7: for a registered resource and every userPermission u below the
\* threshold q, the witness's accessGranted is 0 and the resulting proof and
\* public signals get granted = false and no payload.
C7_InsufficientPermissionIsDenied ==
    \A u \in Permissions, q \in Permissions :
        ( /\ HonestRequest(u, q, call.resourceId)
          /\ call.resourceId \in RegisteredIds
          /\ resourcePermissions[call.resourceId] = q
          /\ u < q )
            => /\ DataAccess(u, q, call.resourceId).accessGranted = 0
               /\ ~call.accessGranted
               /\ call.returned = ""

\* C9: the public-signal vector the gateway consumes is the vector the prover
\* emits: three entries, requiredPermission, resourceId, accessGranted, in
\* this order.
C9_PublicSignalInterface ==
    \A u \in Permissions, q \in Permissions :
        (HonestRequest(u, q, call.resourceId) /\ call.status = "ok")
            => LET w == DataAccess(u, q, call.resourceId)
               IN  /\ Len(call.publicSignals) = 3
                   /\ call.publicSignals = PublicSignals(w)
                   /\ PublicSignals(w) =
                        <<w.requiredPermission, w.resourceId, w.accessGranted>>

\* C10: after registerResource(id, p, d) the entry of id holds exactly p and
\* d, whatever it held before, and a second registerResource(id, p, d) would
\* leave both mappings as they are.
C10_RegisterIsIdempotentUpsert ==
    call.op = "registerResource"
        => /\ resourcePermissions[call.resourceId] = call.requiredPermission
           /\ resourceData[call.resourceId] = call.data
           /\ RegisterPermissions(call.resourceId, call.requiredPermission)
                = resourcePermissions
           /\ RegisterData(call.resourceId, call.data) = resourceData

\* C10 happens: a resource is registered again with a lower threshold and
\* the entry holds the values of the second call.
C10_Witness ==
    /\ call.op = "registerResource"
    /\ Len(events) = 2
    /\ events[1].resourceId = events[2].resourceId
    /\ events[1].requiredPermission > events[2].requiredPermission
    /\ resourcePermissions[call.resourceId] = events[2].requiredPermission
    /\ resourceData[call.resourceId] = call.data

\* C11: a resource is never deleted: once registerResource has been called
\* for a resourceId, no later verifyAccess on it fails with "Resource not
\* registered", whatever was registered in between.
C11_RegisteredStaysRegistered ==
    (IsVerifyCall /\ call.resourceId \in RegisteredIds)
        => call.error # "Resource not registered"

\* C13: updateVerifier is access-controlled: a call by a caller other than
\* the privileged one leaves verifierContract as it was.
C13_UpdateVerifierIsPrivileged ==
    [][(call'.op = "updateVerifier" /\ call'.sender # "deployer")
            => verifierContract' = verifierContract]_vars

\* The public signals of the call disagree with the entry of a resourceId
\* that registerResource has been called for.
SignalMismatch ==
    /\ IsVerifyCall
    /\ call.resourceId \in RegisteredIds
    /\ \/ call.publicSignals[1] # resourcePermissions[call.resourceId]
       \/ call.publicSignals[2] # call.resourceId

\* C14 as stated: a public-signal mismatch on a registered resource returns
\* normally with granted = false and no payload; it raises no error.
C14_MismatchReturnsDenied ==
    SignalMismatch
        => /\ call.status = "ok"
           /\ ~call.accessGranted
           /\ call.returned = ""

\* C14, amended: a public-signal mismatch on a registered resource raises an
\* error: the call reverts and returns neither a grant nor a payload.
C14_MismatchReverts ==
    SignalMismatch
        => /\ call.status = "revert"
           /\ call.error # ""
           /\ ~call.accessGranted
           /\ call.returned = ""

\* C14 happens: the requiredPermission signal alone disagrees with a stored
\* positive threshold, and the call reverts with the mismatch message.
C14_Witness ==
    /\ SignalMismatch
    /\ resourcePermissions[call.resourceId] > 0
    /\ call.publicSignals[2] = call.resourceId
    /\ call.status = "revert"
    /\ call.error = "Invalid required permission"

\* C15: the caller can tell the outcomes apart: an unregistered resource, a
\* mismatching requiredPermission signal, a mismatching resourceId signal
\* each raise their own error, and only a proof the Verifier rejects (on a
\* registered resource with matching signals) is reported as a plain
\* granted = false.
C15_OutcomesAreDistinguishable ==
    IsVerifyCall =>
        LET id == call.resourceId
            ps == call.publicSignals
        IN  /\ (id \notin RegisteredIds)
                => (call.status = "revert" /\ call.error = "Resource not registered")
            /\ (id \in RegisteredIds /\ ps[1] # resourcePermissions[id])
                => (call.status = "revert" /\ call.error = "Invalid required permission")
            /\ (id \in RegisteredIds /\ ps[1] = resourcePermissions[id] /\ ps[2] # id)
                => (call.status = "revert" /\ call.error = "Invalid resource ID")
            /\ ( /\ id \in RegisteredIds
                 /\ ps[1] = resourcePermissions[id]
                 /\ ps[2] = id
                 /\ ~VerifierAccepts(call.proof, ps) )
                => (call.status = "ok" /\ ~call.accessGranted /\ call.returned = "")

----------------------------------------------------------------------------
(* Properties of registerResource as a transaction (SpecRegister).         *)

\* What a reader that was granted access has seen of the entry: the
\* requiredPermission its public signals matched and the payload returned.
Observed ==
    [resourceId |-> call.resourceId,
     requiredPermission |-> call.publicSignals[1],
     data |-> call.returned]

\* C12: a reader never sees the requiredPermission of one registration with
\* the payload of another: what a granted verifyAccess observed, and what
\* every entry holds between transactions, is the pair of one completed
\* registerResource call; and a registerResource that fails leaves both
\* mappings and the event log as they were when it started.
C12_RegisterIsAtomic ==
    [][ /\ Granted' => (Observed' \in registrations')
        /\ (tx'.pc = "idle") =>
              \A id \in ResourceIds :
                  \/ resourcePermissions'[id] = 0 /\ resourceData'[id] = ""
                  \/ [resourceId |-> id,
                      requiredPermission |-> resourcePermissions'[id],
                      data |-> resourceData'[id]] \in registrations'
        /\ (tx.pc # "idle" /\ tx'.pc = "idle" /\ call'.status = "revert")
              => /\ resourcePermissions' = tx.savedPermissions
                 /\ resourceData' = tx.savedData
                 /\ events' = events ]_vars

\* C12 happens: a registration that had already overwritten the threshold of
\* a registered resource failed, and the entry holds the earlier pair again.
C12_Witness ==
    /\ call.op = "registerResource"
    /\ call.status = "revert"
    /\ tx.pc = "idle"
    /\ resourcePermissions[call.resourceId] > 0
    /\ resourcePermissions[call.resourceId] # call.requiredPermission
    /\ resourceData[call.resourceId] # call.data
    /\ resourceData[call.resourceId] # ""

\* C16: the event log changes only by the last statement of a
\* registerResource call, when both fields of the entry already hold the
\* call's values, and then by exactly one ResourceRegistered event carrying
\* the call's resourceId and requiredPermission; every registerResource that
\* completes emits it; verifyAccess and updateVerifier emit nothing.
C16_OneEventPerRegistration ==
    [][ /\ (events' # events) =>
              /\ tx.pc = "emit"
              /\ resourcePermissions[tx.resourceId] = tx.requiredPermission
              /\ resourceData[tx.resourceId] = tx.data
              /\ events' = Append(events,
                    [name |-> "ResourceRegistered", resourceId |-> tx.resourceId,
                     requiredPermission |-> tx.requiredPermission])
        /\ (tx.pc # "idle" /\ tx'.pc = "idle" /\ call'.status = "ok")
              => Len(events') = Len(events) + 1
        /\ (call'.op \in {"verifyAccess", "updateVerifier"}) => events' = events ]_vars

\* C16 happens: two registrations completed and the log holds their two
\* events in the order of the calls.
C16_Witness ==
    /\ Len(events) = 2
    /\ Cardinality(registrations) = 2
    /\ call.op = "registerResource"
    /\ call.status = "ok"
    /\ events[2].resourceId = call.resourceId
    /\ events[2].requiredPermission = call.requiredPermission
    /\ events[1] # events[2]

----------------------------------------------------------------------------
(* Properties of the circuit (specification SpecCircuit).                  *)

\* C8: for userPermission and requiredPermission within the bit width, the
\* circuit yields a witness whose accessGranted is 1 when userPermission >=
\* requiredPermission (equality included) and 0 otherwise, never any other
\* value, and the same for every resourceId.
C8_InclusiveComparison ==
    witness.status # "none"
        => /\ witness.status = "ok"
           /\ witness.accessGranted =
                (IF input.userPermission >= input.requiredPermission THEN 1 ELSE 0)
           /\ \A r \in ResourceIds :
                DataAccess(input.userPermission, input.requiredPermission, r).accessGranted
                    = witness.accessGranted

\* C8 happens: the largest value of the width compared with itself grants.
C8_Witness ==
    /\ witness.status = "ok"
    /\ input.userPermission = input.requiredPermission
    /\ input.userPermission = Pow2(W) - 1
    /\ witness.accessGranted = 1

\* C17: witness generation fails, and yields no comparison result, for
\* every input whose userPermission or requiredPermission lies outside
\* [0, 2^W).
C17_OutOfRangeInputFails ==
    ( /\ witness.status # "none"
      /\ \/ input.userPermission \notin InRange
         \/ input.requiredPermission \notin InRange )
        => witness.status = "failed"


----------------------------------------------------------------------------
(* Claims about the setup, prove and verify workflow, under SpecSetup.     *)

\* C18: whenever no run of compile-circuit.js is in progress, the
\* verification key and the Verifier.sol that exist are the ones exported
\* from the final proving key the prove step reads (data_access_final.zkey),
\* also after a step of the script failed and after the script was re-run.
C18_ExportsMatchFinalZkey ==
    (run.script # "compile" /\ fs.zkeyFinal # Absent) =>
        /\ fs.vk.key # Absent => fs.vk.key = fs.zkeyFinal
        /\ fs.verifierSol.key # Absent => fs.verifierSol.key = fs.zkeyFinal

C20_PrivateDataApartFromVerificationKey ==
    fs.vk.key # Absent =>
        /\ witness.status # "none" => Dir.witnessWtns # Dir.vk
        /\ input.given => Dir.inputJson # Dir.vk

\* C21: the randomness supplied to a contribution is in no artifact an
\* observer can read: the entropy given to every contribution that completed
\* is absent from the script file and from the command lines it runs.
C21_EntropyNotObservable ==
    \A c \in fs.contributed : c.entropy \notin ScriptLiterals

\* The commands of the setup chain in the order of the script.
SetupChain ==
    <<"ptau_new", "ptau_contribute", "ptau_prepare", "groth16_setup",
      "zkey_contribute", "export_vk", "export_sol">>

ChainIndex(step) ==
    IF step = "" THEN 0
    ELSE CHOOSE i \in 1 .. Len(SetupChain) : SetupChain[i] = step

\* A command of the setup chain completes in this step.
ChainStepDone == run'.step # run.step /\ run'.step # ""

\* C22: the setup is a strictly serialized chain.  Every command of the chain
\* is the one statement the single script process is at; the commands of a
\* run complete in the order of the chain, none skipped or repeated (a run
\* that finds the final ptau file starts the chain at groth16 setup); and
\* each command derives its output from the transcript or key file the
\* preceding command of the run produced.
C22_SetupIsSerializedChain ==
    [][ChainStepDone =>
        /\ run.script = "compile"
        /\ run.pc = run'.step
        /\ ChainIndex(run'.step) =
              IF run.step # "" THEN ChainIndex(run.step) + 1
              ELSE IF fs.ptau = Absent THEN 1 ELSE 4
        /\ CASE run'.step = "ptau_new" -> fs'.ptau0 = PowersOfTauNew
             [] run'.step = "ptau_contribute" ->
                    \E e \in Entropy : fs'.ptau1 = PowersOfTauContribute(run.out, e)
             [] run'.step = "ptau_prepare" -> fs'.ptau = PreparePhase2(run.out)
             [] run'.step = "groth16_setup" ->
                    fs'.zkey0 = Groth16Setup(IF run.step = "" THEN fs.ptau ELSE run.out)
             [] run'.step = "zkey_contribute" ->
                    \E e \in Entropy : fs'.zkeyFinal = ZkeyContribute(run.out, e)
             [] run'.step = "export_vk" -> fs'.vk = ExportVerificationKey(run.out)
             [] run'.step = "export_sol" ->
                    fs'.verifierSol = ExportSolidityVerifier(run.out)]_vars

\* A run that generated the Powers of Tau file has completed the whole chain.
C22_Witness ==
    /\ At("compile", "fix_pragma")
    /\ run.step = "export_sol"
    /\ Len(run.out) = 5
    /\ fs.verifierSol.key = run.out
    /\ [chain |-> "ptau", entropy |-> EntropyArg] \in fs.contributed

\* The process of compile-circuit.js ends in this step.
CompileEnds == run.script = "compile" /\ run'.script # "compile"

\* Every step of compile-circuit.js has completed in the current run.
CompileStepsCompleted ==
    /\ fs.r1cs /\ fs.wasm
    /\ fs.ptau # Absent
    /\ run.step = "export_sol"
    /\ fs.zkeyFinal = run.out
    /\ fs.vk = ExportVerificationKey(run.out)
    /\ fs.verifierSol = FixPragma(ExportSolidityVerifier(run.out))
    /\ input = sampleInput

\* C23: compile-circuit.js is fail-stop.  The script ends with exit code 0 or
\* 1; it ends with 0 only from its last statement, after every step of the
\* run has completed, and a step that fails ends it with 1 at once, nothing
\* more being written.
C23_CompileIsFailStop ==
    [][CompileEnds =>
        /\ run'.compileExit \in {0, 1}
        /\ run'.compileExit = 0 <=> run.pc = "exit"
        /\ run'.compileExit = 0 => CompileStepsCompleted
        /\ run'.compileExit = 1 =>
              /\ fs' = fs /\ input' = input
              /\ run.caller = "demo" => (run'.script = "none" /\ run'.demoExit = 1)]_vars

\* A run failed at export verificationkey, after zkey contribute had completed.
C23_Witness ==
    /\ run.script = "none"
    /\ run.compileExit = 1
    /\ run.step = "zkey_contribute"

\* The commands that generate the Powers of Tau file.
PtauCommands == {"ptau_new", "ptau_contribute", "ptau_prepare"}

DemoOrder ==
    <<"check_wasm", "read_input", "wtns_calculate", "prove", "verify",
      "calldata", "deploy_script", "exit">>

DemoIndex(pc) == CHOOSE i \in 1 .. Len(DemoOrder) : DemoOrder[i] = pc

\* C25: the demo runs compile (only with the circuit WASM missing), witness
\* generation, proof generation, verification and calldata generation in that
\* order, each step starting when the command of the one before has
\* completed; a failing command ends the script with exit code 1 at once,
\* nothing more being written; the deployment-script step never ends the
\* script; exit code 0 comes only from the last statement.
C25_DemoRunsInOrder ==
    [][/\ (run.script = "demo" /\ run'.script = "demo") =>
            DemoIndex(run'.pc) = DemoIndex(run.pc) + 1
       /\ (run.script = "demo" /\ run'.script = "compile") =>
            At("demo", "check_wasm") /\ ~fs.wasm
       /\ (At("demo", "check_wasm") /\ run'.script = "demo") => fs.wasm
       /\ (run.script = "compile" /\ run'.script = "demo") =>
            /\ run'.pc = "read_input"
            /\ run'.compileExit = 0
            /\ CompileStepsCompleted
       /\ (At("demo", "wtns_calculate") /\ run'.script = "demo") =>
            /\ witness'.status = "ok"
            /\ witness' = DataAccess(input.userPermission, input.requiredPermission,
                                     input.resourceId)
       /\ (At("demo", "prove") /\ run'.script = "demo") =>
            /\ fs'.proofJson = ProveWith(fs.zkeyFinal, witness)
            /\ fs'.publicJson = PublicSignals(witness)
       /\ (At("demo", "calldata") /\ run'.script = "demo") => fs'.calldata
       /\ At("demo", "deploy_script") => (run'.script = "demo" /\ run'.pc = "exit")
       /\ (run.script = "demo" /\ run'.script = "none") =>
            /\ run'.demoExit \in {0, 1}
            /\ run'.demoExit = 0 <=> run.pc = "exit"
            /\ run'.demoExit = 1 => (fs' = fs /\ witness' = witness)]_vars

\* A run of the demo ended with exit code 0 although the deployment script
\* was missing and could not be written.
C25_Witness ==
    /\ run.script = "none"
    /\ run.demoExit = 0
    /\ fs.calldata
    /\ ~fs.deployJs

\* C26: the demo reaches calldata generation, and ends with exit code 0, only
\* in a run whose verification step reported the proof valid (its output
\* held 'OK').
C26_CalldataOnlyAfterValidProof ==
    /\ (run.script = "demo" /\ run.pc \in {"calldata", "deploy_script", "exit"}) =>
            run.verifyOutput = "OK"
    /\ (run.script = "none" /\ run.demoExit = 0) => run.verifyOutput = "OK"

----------------------------------------------------------------------------
(* Claims about scripts/deploy.js, under SpecDeploy.                       *)

\* The steps of deploy.js in the order of the script.
DeployOrder == <<"deploy_verifier", "deploy_gateway", "register", "exit">>

DeployIndex(pc) == CHOOSE i \in 1 .. Len(DeployOrder) : DeployOrder[i] = pc

\* C27: deploy.js deploys the Verifier, then the gateway constructed with
\* that Verifier's address, then registers the sample resource.  When it
\* ends with exit code 0 the gateway's verifierContract is the deployed
\* Verifier's address and resource 67890 is registered with
\* requiredPermission 5 and its data; a step that fails ends it with exit
\* code 1 at once, no later step being performed.
C27_DeployInOrderOrFail ==
    [][/\ (run.script = "deploy" /\ run'.script = "deploy") =>
            DeployIndex(run'.pc) = DeployIndex(run.pc) + 1
       /\ (At("deploy", "deploy_verifier") /\ run'.script = "deploy") =>
            run'.verifierAddress \in Addresses
       /\ (At("deploy", "deploy_gateway") /\ run'.script = "deploy") =>
            /\ verifierContract' = run.verifierAddress
            /\ \A id \in ResourceIds : resourcePermissions'[id] = 0
       /\ (run.script = "deploy" /\ run'.script = "none") =>
            /\ run'.deployExit \in {0, 1}
            /\ run'.deployExit = 0 <=> run.pc = "exit"
            /\ run'.deployExit = 0 =>
                  /\ verifierContract = run.verifierAddress
                  /\ verifierContract \in Addresses
                  /\ resourcePermissions[67890] = 5
                  /\ resourceData[67890] =
                        "This is sensitive data requiring permission level 5"
                  /\ events = <<ResourceRegistered(67890, 5)>>
            /\ gatewayVars' = gatewayVars]_vars

\* A run of deploy.js has ended with exit code 0.
C27_Witness ==
    /\ run.script = "none"
    /\ run.deployExit = 0
    /\ run.gateway
    /\ verifierContract = run.verifierAddress
    /\ resourcePermissions[67890] = 5

----------------------------------------------------------------------------
(* Claims about what verifyAccess reads and what the calls change, under   *)
(* Spec.                                                                   *)

\* What the caller of verifyAccess gets: a revert with its message, or the
\* pair (accessGranted, data).
Outcome(c) == <<c.status, c.error, c.accessGranted, c.returned>>

\* verifyAccess called on a gateway whose verifierContract is verifier, the
\* mappings being those of the current state.  The function body does not
\* read verifierContract.
verifyAccessWith(verifier, resourceId, proof, publicSignals) ==
    verifyAccess(resourceId, proof, publicSignals)

\* Two calls that differ only in the proof return different results.
DependsOnProof ==
    \E id \in ResourceIds, q \in Permissions, r \in ResourceIds, p1, p2 \in Proofs :
        Outcome(verifyAccess(id, p1, <<q, r>>)) # Outcome(verifyAccess(id, p2, <<q, r>>))

\* Two calls that differ only in the configured verifier return different results.
DependsOnVerifier ==
    \E id \in ResourceIds, q \in Permissions, r \in ResourceIds, p \in Proofs,
       a1, a2 \in Addresses :
        Outcome(verifyAccessWith(a1, id, p, <<q, r>>))
            # Outcome(verifyAccessWith(a2, id, p, <<q, r>>))

\* C28: the result of verifyAccess depends on the proof and on the configured
\* verifier: with a resource registered that a call can be granted, there are
\* a resourceId and publicSignals for which two calls differing only in the
\* proof, or only in verifierContract, return different results.
C28_ResultDependsOnProofOrVerifier ==
    (\E id \in ResourceIds : ResourceExists(id)) => (DependsOnProof \/ DependsOnVerifier)

\* In no state does the result of verifyAccess depend on the proof or on the
\* verifier, and no updateVerifier changes the result of any call.
VerifyAccessIgnoresProofAndVerifier == ~DependsOnProof /\ ~DependsOnVerifier

UpdateVerifierChangesNoResult ==
    [][verifierContract' # verifierContract =>
        \A id \in ResourceIds, q \in Permissions, r \in ResourceIds, p \in Proofs :
            Outcome(verifyAccess(id, p, <<q, r>>)') = Outcome(verifyAccess(id, p, <<q, r>>))]_vars

\* A call of verifyAccess is made in this step.
VerifyAccessStep == call.op = "none" /\ call'.op = "verifyAccess"

\* C29: verifyAccess is read-only and deterministic.  Whatever its arguments
\* and its outcome, a call leaves resourcePermissions, resourceData and
\* verifierContract unchanged and emits no event, its result is the one the
\* function gives for its arguments in the state it was called in, and the
\* same call repeated in the state it leaves returns the same result.
C29_VerifyAccessIsReadOnly ==
    [][VerifyAccessStep =>
        /\ resourcePermissions' = resourcePermissions
        /\ resourceData' = resourceData
        /\ verifierContract' = verifierContract
        /\ events' = events
        /\ \A id \in {call'.resourceId}, p \in {call'.proof}, ps \in {call'.publicSignals} :
              /\ call' = verifyAccess(id, p, ps)
              /\ call' = verifyAccess(id, p, ps)']_vars

\* Calls of verifyAccess with each outcome: here one that was granted on a
\* gateway holding a registration.
C29_Witness ==
    /\ Granted
    /\ Len(events) > 0
    /\ resourceData[call.resourceId] # ""

\* C30: registerResource(id, p, d) changes only the entry of id: the
\* requiredPermission and the data of every other resourceId and
\* verifierContract are unchanged, the entry of id becoming (p, d);
\* updateVerifier changes only verifierContract, to the address given, and
\* leaves every resource entry unchanged.
C30_CallsChangeOnlyTheirEntry ==
    [][/\ (call.op = "none" /\ call'.op = "registerResource") =>
            /\ \A other \in ResourceIds \ {call'.resourceId} :
                  /\ resourcePermissions'[other] = resourcePermissions[other]
                  /\ resourceData'[other] = resourceData[other]
            /\ resourcePermissions'[call'.resourceId] = call'.requiredPermission
            /\ resourceData'[call'.resourceId] = call'.data
            /\ verifierContract' = verifierContract
       /\ (call.op = "none" /\ call'.op = "updateVerifier") =>
            /\ verifierContract' = call'.newVerifier
            /\ resourcePermissions' = resourcePermissions
            /\ resourceData' = resourceData
            /\ events' = events]_vars

\* A resource was registered while the other resourceId held an entry, and
\* the verifier was replaced before.
C30_Witness ==
    /\ call.op = "registerResource"
    /\ verifierContract = "verifier2"
    /\ \E other \in ResourceIds \ {call.resourceId} :
          /\ resourcePermissions[other] > 0
          /\ resourceData[other] # ""
          /\ resourceData[other] # call.data
====
